---- MODULE Spec2Model ----
(***************************************************************************)
(* A model of the LSM engine of src/db/lsm.rs: the memtable, the list of   *)
(* SSTables (memory map, index, tombstones), the segment files of the      *)
(* directory, and the operations insert, get, delete and flush_memtable,   *)
(* down to the bytes of a record (u64-LE key, u32-LE length, BSON body).   *)
(*                                                                         *)
(* u64 and f64 values that do not fit TLC's integers (a Vector's id and    *)
(* its data) are carried as their 8-byte little-endian images; keys are    *)
(* small naturals and are converted with LE when they are written.         *)
(***************************************************************************)
EXTENDS Integers, Sequences, FiniteSets, TLC

\* ---------------------------------------------------------------- bounds
\* Keys are 0..MaxKey.
MaxKey == 1
\* LSMTree.sstable_size (10 in LSMTree::new), scaled down.
sstable_size == 2
\* No flush is attempted once this many SSTables exist.
MaxSSTables == 2
\* The longest data sequence of an inserted Vector.
MaxData == 1
\* At most this many failures are injected into the flushes of one run.
MaxFaults == 1

Keys == 0 .. MaxKey

\* ------------------------------------------------------------ byte images
RECURSIVE LE(_, _)
\* The w-byte little-endian image of n (write_u64 / write_u32).
LE(n, w) == IF w = 0 THEN << >> ELSE << n % 256 >> \o LE(n \div 256, w - 1)

RECURSIVE FromLE(_)
\* The number a little-endian image stands for (read_u64 / read_u32).
FromLE(bytes) ==
    IF bytes = << >> THEN 0 ELSE Head(bytes) + 256 * FromLE(Tail(bytes))

\* f64 images: 0.0 and 1.0, the values the tests store.
F64_0 == << 0, 0, 0, 0, 0, 0, 0, 0 >>
F64_1 == << 0, 0, 0, 0, 0, 0, 240, 63 >>

\* struct Vector { id: u64, data: Vec<f64> }
Vector(id, data) == [id |-> id, data |-> data]

\* A placeholder where no Vector is carried (None, Err).
NoVector == Vector(<< >>, << >>)

\* vec![0.0, 1.0, 0.0, ...] of length n
DataOf(n) == [i \in 1 .. n |-> IF i % 2 = 1 THEN F64_0 ELSE F64_1]

\* An id above i64::MAX (2^63): BSON has no unsigned 64-bit integer.
HugeId == << 0, 0, 0, 0, 0, 0, 0, 128 >>

\* The Vectors that insert is called with.
Vectors ==
    { Vector(LE(1, 8), DataOf(n)) : n \in 0 .. MaxData }
        \cup { Vector(HugeId, << >>) }

\* ------------------------------------------------------------- BSON codec
\* One element of a BSON array of doubles: 0x01, the index as a C string,
\* the double.
ArrayElement(i, d) == << 1, 48 + (i - 1), 0 >> \o d

RECURSIVE ArrayElements(_, _)
ArrayElements(data, i) ==
    IF i > Len(data) THEN << >>
    ELSE ArrayElement(i, data[i]) \o ArrayElements(data, i + 1)

\* The BSON array document of data.
ArrayDoc(data) ==
    LET body == ArrayElements(data, 1)
    IN  LE(4 + Len(body) + 1, 4) \o body \o << 0 >>

\* bson::to_vec(&Vector): {"id": Int64, "data": Array}. A u64 above i64::MAX
\* is an error (UnsignedIntegerExceededRange).
to_vec(v) ==
    IF v.id[8] >= 128
    THEN [ok |-> FALSE, bytes |-> << >>]
    ELSE LET body == << 18, 105, 100, 0 >> \o v.id
                     \o << 4, 100, 97, 116, 97, 0 >> \o ArrayDoc(v.data)
         IN  [ok |-> TRUE, bytes |-> LE(4 + Len(body) + 1, 4) \o body \o << 0 >>]

\* bson::from_slice::<Vector>(bytes): the document must span the slice, hold
\* an Int64 "id" that is not negative and an Array "data" of doubles.
from_slice(bytes) ==
    LET n     == Len(bytes)
        alen  == n - 23
        count == (alen - 5) \div 11
        elem(i) == SubSeq(bytes, 27 + (i - 1) * 11, 26 + i * 11)
        wellFormed ==
            /\ n >= 28
            /\ SubSeq(bytes, 1, 4) = LE(n, 4)
            /\ SubSeq(bytes, 5, 8) = << 18, 105, 100, 0 >>
            /\ bytes[16] < 128
            /\ SubSeq(bytes, 17, 22) = << 4, 100, 97, 116, 97, 0 >>
            /\ SubSeq(bytes, 23, 26) = LE(alen, 4)
            /\ (alen - 5) % 11 = 0
            /\ \A i \in 1 .. count :
                   SubSeq(elem(i), 1, 3) = << 1, 48 + (i - 1), 0 >>
            /\ bytes[n - 1] = 0
            /\ bytes[n] = 0
    IN  IF wellFormed
        THEN [ok |-> TRUE,
              value |-> Vector(SubSeq(bytes, 9, 16),
                               [i \in 1 .. count |-> SubSeq(elem(i), 4, 11)])]
        ELSE [ok |-> FALSE, value |-> NoVector]

\* ---------------------------------------------------------------- state
VARIABLES
    memtable,   \* LSMTree.memtable: BTreeMap<u64, Vector>, a function on its keys
    sstables,   \* LSMTree.sstables: Vec<SSTable>, oldest first
    dir,        \* the files sstable_<n>.sdb of LSMTree.directory, by n
    op,         \* the last call that took &mut self or panicked: name, key, outcome
    hist,       \* per key, the last successful write: "ins" (with its value) or "del"
    faults      \* the number of failures injected so far

vars == << memtable, sstables, dir, op, hist, faults >>

\* struct SSTable { mmap, index, tombstones }
SSTable(mmap, index, tombstones) ==
    [mmap |-> mmap, index |-> index, tombstones |-> tombstones]

\* The failures the environment can inject into a flush: File open
\* ("create"), the first write through the BufWriter ("write"), the first
\* stream_position ("seek"), writer.flush() ("flush", taken to have written
\* nothing), Mmap::map ("mmap"). A value that does not serialize is no
\* injected fault: to_vec decides it.
Faults == { "none", "create", "write", "flush", "seek", "mmap" }

\* BTreeMap::insert
put(m, key, value) ==
    [k \in DOMAIN m \cup { key } |-> IF k = key THEN value ELSE m[k]]

\* remove as a slip: the entry is looked up but not taken out.
remove_nothing(m, key) == m

\* BTreeMap::remove
remove(m, key) == [k \in DOMAIN m \ { key } |-> m[k]]

\* flush_due as a slip: > for >=.
flush_due_late(mt) == Cardinality(DOMAIN mt) > sstable_size

\* The test of insert: self.memtable.len() >= self.sstable_size
flush_due(mt) == Cardinality(DOMAIN mt) >= sstable_size

RECURSIVE Ascending(_)
\* BTreeMap::iter: the keys in ascending order.
Ascending(S) ==
    IF S = { } THEN << >>
    ELSE LET least == CHOOSE k \in S : \A j \in S : k <= j
         IN  << least >> \o Ascending(S \ { least })

\* A file opened without truncate and written from position 0: the bytes
\* written replace the head of the old content, the rest of it stays.
Overlay(old, written) ==
    IF Len(written) >= Len(old) THEN written
    ELSE written \o SubSeq(old, Len(written) + 1, Len(old))

RECURSIVE write_loop_no_length(_, _, _, _, _, _)
\* write_loop as a slip: the write_u32 of the length is left out.
write_loop_no_length(mt, keys, buf, index, offset, fault) ==
    IF keys = << >>
    THEN [status |-> "ok", buf |-> buf, index |-> index]
    ELSE LET key          == Head(keys)
             entry_offset == offset
             buf1         == buf \o LE(key, 8)
             serialized   == to_vec(mt[key])
             buf2         == buf1 \o serialized.bytes
             index2       == put(index, key, entry_offset)
         IN  IF fault = "write"
             THEN [status |-> "panic", buf |-> buf, index |-> index]
             ELSE IF ~serialized.ok
             THEN [status |-> "panic", buf |-> buf1, index |-> index]
             ELSE IF fault = "seek"
             THEN [status |-> "panic", buf |-> buf2, index |-> index2]
             ELSE write_loop_no_length(mt, Tail(keys), buf2, index2, Len(buf2), fault)

RECURSIVE write_loop_offset_after(_, _, _, _, _, _)
\* write_loop as a slip: the offset put in the index is the one after the
\* record has been written.
write_loop_offset_after(mt, keys, buf, index, offset, fault) ==
    IF keys = << >>
    THEN [status |-> "ok", buf |-> buf, index |-> index]
    ELSE LET key          == Head(keys)
             buf1         == buf \o LE(key, 8)
             serialized   == to_vec(mt[key])
             buf2         == buf1 \o LE(Len(serialized.bytes), 4) \o serialized.bytes
             entry_offset == Len(buf2)
             index2       == put(index, key, entry_offset)
         IN  IF fault = "write"
             THEN [status |-> "panic", buf |-> buf, index |-> index]
             ELSE IF ~serialized.ok
             THEN [status |-> "panic", buf |-> buf1, index |-> index]
             ELSE IF fault = "seek"
             THEN [status |-> "panic", buf |-> buf2, index |-> index2]
             ELSE write_loop_offset_after(mt, Tail(keys), buf2, index2, Len(buf2), fault)

RECURSIVE write_loop(_, _, _, _, _, _)
\* The loop of write_buffer over the entries still to write. buf is what
\* the writer has been handed, offset the last stream_position. Every
\* failure is an expect(): status "panic".
write_loop(mt, keys, buf, index, offset, fault) ==
    IF keys = << >>
    THEN [status |-> "ok", buf |-> buf, index |-> index]
    ELSE LET key          == Head(keys)
             entry_offset == offset
             buf1         == buf \o LE(key, 8)
             serialized   == to_vec(mt[key])
             buf2         == buf1 \o LE(Len(serialized.bytes), 4) \o serialized.bytes
             index2       == put(index, key, entry_offset)
         IN  IF fault = "write"
             THEN [status |-> "panic", buf |-> buf, index |-> index]
             ELSE IF ~serialized.ok
             THEN [status |-> "panic", buf |-> buf1, index |-> index]
             ELSE IF fault = "seek"
             THEN [status |-> "panic", buf |-> buf2, index |-> index2]
             ELSE write_loop(mt, Tail(keys), buf2, index2, Len(buf2), fault)

\* LSMTree::write_buffer
write_buffer(mt, fault) ==
    write_loop(mt, Ascending(DOMAIN mt), << >>, << >>, 0, fault)

\* flush_memtable as a slip: the memtable is cleared before the file is
\* mapped, so a failed Mmap::map loses it.
flush_memtable_clear_first(mt, ssts, d, fault) ==
    LET n       == Len(ssts)
        w       == write_buffer(mt, fault)
        file    == Overlay(d[n], w.buf)
        written == [d EXCEPT ![n] = file]
    IN  IF fault = "create"
        THEN [memtable |-> mt, sstables |-> ssts, dir |-> d, res |-> "err"]
        ELSE IF w.status = "panic"
        THEN [memtable |-> mt, sstables |-> ssts, dir |-> written, res |-> "panic"]
        ELSE IF fault = "flush"
        THEN [memtable |-> mt, sstables |-> ssts, dir |-> d, res |-> "panic"]
        ELSE IF fault = "mmap"
        THEN [memtable |-> << >>, sstables |-> ssts, dir |-> written, res |-> "err"]
        ELSE [memtable |-> << >>,
              sstables |-> Append(ssts, SSTable(file, w.index, { })),
              dir      |-> written,
              res      |-> "ok"]

\* flush_memtable as a slip: the new SSTable is put at the front of the list.
flush_memtable_push_front(mt, ssts, d, fault) ==
    LET n       == Len(ssts)
        w       == write_buffer(mt, fault)
        file    == Overlay(d[n], w.buf)
        written == [d EXCEPT ![n] = file]
    IN  IF fault = "create"
        THEN [memtable |-> mt, sstables |-> ssts, dir |-> d, res |-> "err"]
        ELSE IF w.status = "panic"
        THEN [memtable |-> mt, sstables |-> ssts, dir |-> written, res |-> "panic"]
        ELSE IF fault = "flush"
        THEN [memtable |-> mt, sstables |-> ssts, dir |-> d, res |-> "panic"]
        ELSE IF fault = "mmap"
        THEN [memtable |-> mt, sstables |-> ssts, dir |-> written, res |-> "err"]
        ELSE [memtable |-> << >>,
              sstables |-> << SSTable(file, w.index, { }) >> \o ssts,
              dir      |-> written,
              res      |-> "ok"]

\* flush_memtable as a slip: self.memtable.clear() is left out.
flush_memtable_no_clear(mt, ssts, d, fault) ==
    LET n       == Len(ssts)
        w       == write_buffer(mt, fault)
        file    == Overlay(d[n], w.buf)
        written == [d EXCEPT ![n] = file]
    IN  IF fault = "create"
        THEN [memtable |-> mt, sstables |-> ssts, dir |-> d, res |-> "err"]
        ELSE IF w.status = "panic"
        THEN [memtable |-> mt, sstables |-> ssts, dir |-> written, res |-> "panic"]
        ELSE IF fault = "flush"
        THEN [memtable |-> mt, sstables |-> ssts, dir |-> d, res |-> "panic"]
        ELSE IF fault = "mmap"
        THEN [memtable |-> mt, sstables |-> ssts, dir |-> written, res |-> "err"]
        ELSE [memtable |-> mt,
              sstables |-> Append(ssts, SSTable(file, w.index, { })),
              dir      |-> written,
              res      |-> "ok"]

\* LSMTree::flush_memtable on the engine (mt, ssts, d) under a fault: the
\* engine afterwards and the outcome, "ok", "err" (returned) or "panic".
flush_memtable(mt, ssts, d, fault) ==
    LET n       == Len(ssts)
        w       == write_buffer(mt, fault)
        \* a BufWriter dropped while unwinding still writes out its buffer
        file    == Overlay(d[n], w.buf)
        written == [d EXCEPT ![n] = file]
    IN  IF fault = "create"
        THEN [memtable |-> mt, sstables |-> ssts, dir |-> d, res |-> "err"]
        ELSE IF w.status = "panic"
        THEN [memtable |-> mt, sstables |-> ssts, dir |-> written, res |-> "panic"]
        ELSE IF fault = "flush"
        THEN [memtable |-> mt, sstables |-> ssts, dir |-> d, res |-> "panic"]
        ELSE IF fault = "mmap"
        THEN [memtable |-> mt, sstables |-> ssts, dir |-> written, res |-> "err"]
        ELSE [memtable |-> << >>,
              sstables |-> Append(ssts, SSTable(file, w.index, { })),
              dir      |-> written,
              res      |-> "ok"]

\* LSMTree::read_value_from_sstable: Ok((key, value)), Err, or a panic
\* (the slice mmap[offset..], the expect on from_slice).
read_value_from_sstable(mmap, offset) ==
    LET cursor == SubSeq(mmap, offset + 1, Len(mmap))
        len    == FromLE(SubSeq(cursor, 9, 12))
        v      == from_slice(SubSeq(cursor, 13, 12 + len))
    IN  IF offset > Len(mmap)
        THEN [tag |-> "Panic", key |-> << >>, value |-> NoVector]
        ELSE IF Len(cursor) < 12 \/ Len(cursor) < 12 + len
        THEN [tag |-> "Err", key |-> << >>, value |-> NoVector]
        ELSE IF ~v.ok
        THEN [tag |-> "Panic", key |-> << >>, value |-> NoVector]
        ELSE [tag |-> "Ok", key |-> SubSeq(cursor, 1, 8), value |-> v.value]

\* LSMTree::read_value_from_buffer on a buffer positioned at pos (from 0):
\* Ok((key, value)) or Err; every failure is returned with `?`.
read_value_from_buffer(buf, pos) ==
    LET cursor == SubSeq(buf, pos + 1, Len(buf))
        len    == FromLE(SubSeq(cursor, 9, 12))
        v      == from_slice(SubSeq(cursor, 13, 12 + len))
    IN  IF Len(cursor) < 12 \/ Len(cursor) < 12 + len \/ ~v.ok
        THEN [tag |-> "Err", key |-> << >>, value |-> NoVector]
        ELSE [tag |-> "Ok", key |-> SubSeq(cursor, 1, 8), value |-> v.value]

None == [tag |-> "None", value |-> NoVector]
Some(v) == [tag |-> "Some", value |-> v]
Panic == [tag |-> "Panic", value |-> NoVector]

RECURSIVE get_scan_oldest_first(_, _, _)
\* get_scan as a slip: sstables.iter() without rev(); i counts the SSTables
\* still to visit.
get_scan_oldest_first(ssts, i, key) ==
    LET at == Len(ssts) - i + 1
    IN  IF i = 0 THEN None
        ELSE IF key \in ssts[at].tombstones THEN None
        ELSE IF key \in DOMAIN ssts[at].index
        THEN LET r == read_value_from_sstable(ssts[at].mmap, ssts[at].index[key])
             IN  IF r.tag = "Ok" THEN Some(r.value)
                 ELSE IF r.tag = "Err" THEN None
                 ELSE Panic
        ELSE get_scan_oldest_first(ssts, i - 1, key)

RECURSIVE get_scan_index_first(_, _, _)
\* get_scan as a slip: the index is consulted before the tombstones.
get_scan_index_first(ssts, i, key) ==
    IF i = 0 THEN None
    ELSE IF key \in DOMAIN ssts[i].index
    THEN LET r == read_value_from_sstable(ssts[i].mmap, ssts[i].index[key])
         IN  IF r.tag = "Ok" THEN Some(r.value)
             ELSE IF r.tag = "Err" THEN None
             ELSE Panic
    ELSE IF key \in ssts[i].tombstones THEN None
    ELSE get_scan_index_first(ssts, i - 1, key)

RECURSIVE get_scan(_, _, _)
\* The loop of get over sstables.iter().rev(), from position i down.
get_scan(ssts, i, key) ==
    IF i = 0 THEN None
    ELSE IF key \in ssts[i].tombstones THEN None
    ELSE IF key \in DOMAIN ssts[i].index
    THEN LET r == read_value_from_sstable(ssts[i].mmap, ssts[i].index[key])
         IN  IF r.tag = "Ok" THEN Some(r.value)
             ELSE IF r.tag = "Err" THEN None
             ELSE Panic
    ELSE get_scan(ssts, i - 1, key)

\* LSMTree::get on the engine (mt, ssts)
get_in(mt, ssts, key) ==
    IF key \in DOMAIN mt THEN Some(mt[key]) ELSE get_scan(ssts, Len(ssts), key)

\* LSMTree::get on the current engine
get(key) == get_in(memtable, sstables, key)

\* delete_target as a slip: only the newest SSTable is looked at.
delete_target_newest_only(ssts, key) ==
    IF Len(ssts) > 0 /\ key \in DOMAIN ssts[Len(ssts)].index THEN Len(ssts) ELSE 0

\* delete_target as a slip: the newest SSTable takes the tombstone whenever
\* any SSTable holds the key.
delete_target_last(ssts, key) ==
    LET holders == { i \in 1 .. Len(ssts) : key \in DOMAIN ssts[i].index }
    IN  IF holders = { } THEN 0 ELSE Len(ssts)

\* delete_target as a slip: iter_mut() without rev(), the oldest holder.
delete_target_oldest(ssts, key) ==
    LET holders == { i \in 1 .. Len(ssts) : key \in DOMAIN ssts[i].index }
    IN  IF holders = { } THEN 0
        ELSE CHOOSE i \in holders : \A j \in holders : i <= j

\* The position of the SSTable that delete tombstones: the newest one whose
\* index holds key; 0 when there is none.
delete_target(ssts, key) ==
    LET holders == { i \in 1 .. Len(ssts) : key \in DOMAIN ssts[i].index }
    IN  IF holders = { } THEN 0
        ELSE CHOOSE i \in holders : \A j \in holders : j <= i

\* ------------------------------------------------------------- operations
NoWrite == [kind |-> "none", value |-> NoVector]

\* A call and its outcome: "ok", "err" (an io::Error other than NotFound),
\* "notfound" (io::ErrorKind::NotFound) or "panic".
Call(name, key, res) == [name |-> name, key |-> key, res |-> res]

\* The failures a flush may still meet.
Injectable == IF faults < MaxFaults THEN Faults ELSE { "none" }

Injected(fault) == IF fault = "none" THEN faults ELSE faults + 1

\* LSMTree::new on an empty directory
Init ==
    /\ memtable = << >>
    /\ sstables = << >>
    /\ dir = [n \in 0 .. MaxSSTables |-> << >>]
    /\ op = Call("new", 0, "ok")
    /\ hist = [k \in Keys |-> NoWrite]
    /\ faults = 0

\* A panic ends the process: nothing is called after it.
Running == op.res # "panic"

\* LSMTree::insert(key, value)
Insert(key, value, fault) ==
    LET mt1 == put(memtable, key, value)
    IN  /\ Running
        /\ IF flush_due(mt1)
           THEN /\ Len(sstables) < MaxSSTables
                /\ LET r == flush_memtable(mt1, sstables, dir, fault)
                   IN  /\ memtable' = r.memtable
                       /\ sstables' = r.sstables
                       /\ dir' = r.dir
                       /\ op' = Call("insert", key, r.res)
                       /\ faults' = Injected(fault)
                       /\ hist' = [hist EXCEPT ![key] =
                                      IF r.res = "ok"
                                      THEN [kind |-> "ins", value |-> value]
                                      ELSE NoWrite]
           ELSE /\ fault = "none"
                /\ memtable' = mt1
                /\ op' = Call("insert", key, "ok")
                /\ hist' = [hist EXCEPT ![key] = [kind |-> "ins", value |-> value]]
                /\ UNCHANGED << sstables, dir, faults >>

\* LSMTree::get(key): it takes &self and changes nothing; what it returns
\* is get(key). A panic in it ends the process like any other.
Get(key) ==
    /\ Running
    /\ op' = IF get(key).tag = "Panic" THEN Call("get", key, "panic") ELSE op
    /\ UNCHANGED << memtable, sstables, dir, hist, faults >>

\* LSMTree::delete(key)
Delete(key) ==
    LET i == delete_target(sstables, key)
    IN  /\ Running
        /\ IF key \in DOMAIN memtable
           THEN /\ memtable' = remove(memtable, key)
                /\ op' = Call("delete", key, "ok")
                /\ hist' = [hist EXCEPT ![key] = [kind |-> "del", value |-> NoVector]]
                /\ UNCHANGED << sstables, dir, faults >>
           ELSE IF i # 0
           THEN /\ sstables' = [sstables EXCEPT ![i].tombstones = @ \cup { key }]
                /\ op' = Call("delete", key, "ok")
                /\ hist' = [hist EXCEPT ![key] = [kind |-> "del", value |-> NoVector]]
                /\ UNCHANGED << memtable, dir, faults >>
           ELSE /\ op' = Call("delete", key, "notfound")
                /\ hist' = [hist EXCEPT ![key] =
                               IF @.kind = "del" THEN @ ELSE NoWrite]
                /\ UNCHANGED << memtable, sstables, dir, faults >>

\* LSMTree::flush_memtable called directly, as the tests do.
Flush(fault) ==
    /\ Running
    /\ Len(sstables) < MaxSSTables
    /\ fault \in { "write", "seek" } => memtable # << >>
    /\ LET r == flush_memtable(memtable, sstables, dir, fault)
       IN  /\ memtable' = r.memtable
           /\ sstables' = r.sstables
           /\ dir' = r.dir
           /\ op' = Call("flush", 0, r.res)
           /\ faults' = Injected(fault)
    /\ UNCHANGED hist

Next ==
    \/ \E key \in Keys, value \in Vectors, fault \in Injectable :
           Insert(key, value, fault)
    \/ \E key \in Keys : Get(key)
    \/ \E key \in Keys : Delete(key)
    \/ \E fault \in Injectable : Flush(fault)

Spec == Init /\ [][Next]_vars

\* The bytes of an SSTable's file that stand at the head of a record: the
\* low byte of the length field and the first byte of the body of each
\* indexed record (positions from 1).
RecordHeads(sst) ==
    UNION { { sst.index[k] + 9, sst.index[k] + 13 } : k \in DOMAIN sst.index }

\* Another writer overwrites one byte of the file behind sstables[i] with
\* 0xFF; the shared mapping shows it. The file of sstables[i] is
\* sstable_<i-1>.sdb.
Corrupt(i, pos) ==
    /\ Running
    /\ faults < MaxFaults
    /\ pos \in RecordHeads(sstables[i])
    /\ sstables' = [sstables EXCEPT ![i].mmap[pos] = 255]
    /\ dir' = [dir EXCEPT ![i - 1][pos] = 255]
    /\ faults' = faults + 1
    /\ UNCHANGED << memtable, op, hist >>

NextCorrupt ==
    \/ Next
    \/ \E i \in 1 .. Len(sstables) :
           \E pos \in 1 .. Len(sstables[i].mmap) : Corrupt(i, pos)

\* The engine on a directory whose files another writer may overwrite.
SpecCorrupt == Init /\ [][NextCorrupt]_vars

\* ----------------------------------------------------------------- claims
\* The keys held by the index of some SSTable.
Indexed(key) == \E i \in 1 .. Len(sstables) : key \in DOMAIN sstables[i].index

\* The step is a call of name on key (insert, delete and flush leave their
\* record in op).
Called(name, key) == op'.name = name /\ op'.key = key

\* C1: once delete(k) has returned success, get(k) returns absent until the
\* next insert(k), whatever flushes and calls on other keys come between.
C1_DeletedStaysAbsent ==
    \A k \in Keys : hist[k].kind = "del" => get(k) = None

\* C2: after insert(k, v) has returned success, get(k) returns v until the
\* next insert(k) or delete(k), across flushes, writes of other keys, older
\* values of k in SSTables and earlier tombstones of k.
C2_NewestWriteWins ==
    \A k \in Keys : hist[k].kind = "ins" => get(k) = Some(hist[k].value)

\* C2 witness: the last insert of k has been flushed to the newest SSTable
\* while the older one holds another value of k under a tombstone.
C2_Witness ==
    \E k \in Keys :
        /\ hist[k].kind = "ins"
        /\ k \notin DOMAIN memtable
        /\ Len(sstables) = 2
        /\ k \in sstables[1].tombstones
        /\ k \in DOMAIN sstables[2].index
        /\ read_value_from_sstable(sstables[1].mmap, sstables[1].index[k]).value
               # hist[k].value
        /\ get(k) = Some(hist[k].value)

\* C3: a delete(k) that finds k in no memtable but in SSTables makes get(k)
\* absent, and what get(k) returns never depends on the SSTables older than
\* one that holds a tombstone of k.
C3_TombstoneShadows ==
    /\ [](\A k \in Keys : \A i \in 1 .. Len(sstables) :
            k \in sstables[i].tombstones =>
                get(k) = get_in(memtable, SubSeq(sstables, i, Len(sstables)), k))
    /\ [][\A k \in Keys :
            (Called("delete", k) /\ op'.res = "ok"
                 /\ k \notin DOMAIN memtable /\ Indexed(k))
            => get_in(memtable', sstables', k) = None]_vars

\* C3 witness: delete(k) has put a tombstone on the newer of two SSTables
\* that both index k; the older one has none and its record is readable.
C3_Witness ==
    \E k \in Keys :
        /\ op = Call("delete", k, "ok")
        /\ k \notin DOMAIN memtable
        /\ Len(sstables) = 2
        /\ k \in DOMAIN sstables[1].index /\ k \notin sstables[1].tombstones
        /\ k \in DOMAIN sstables[2].index /\ k \in sstables[2].tombstones
        /\ read_value_from_sstable(sstables[1].mmap, sstables[1].index[k]).tag = "Ok"
        /\ get(k) = None

\* C4: delete(k) returns not-found exactly when k is neither in the memtable
\* nor in the index of any SSTable, and then changes nothing; on a fresh
\* engine that is the case for every key.
C4_DeleteNotFound ==
    /\ [](op.name = "new" => memtable = << >> /\ sstables = << >>)
    /\ [][\A k \in Keys :
            Called("delete", k) =>
                /\ op'.res = "notfound" <=> (k \notin DOMAIN memtable /\ ~Indexed(k))
                /\ op'.res = "notfound" =>
                       /\ memtable' = memtable
                       /\ sstables' = sstables
                       /\ dir' = dir]_vars

\* C4 witness: a delete has returned not-found on an engine that holds other
\* keys both in the memtable and in an SSTable.
C4_Witness ==
    /\ op.name = "delete"
    /\ op.res = "notfound"
    /\ memtable # << >>
    /\ \E i \in 1 .. Len(sstables) : DOMAIN sstables[i].index # { }

\* C5: a delete(k) that follows a successful delete(k), with no insert(k)
\* between them, returns not-found.
C5_SecondDeleteNotFound ==
    [][\A k \in Keys :
          (hist[k].kind = "del" /\ Called("delete", k)) => op'.res = "notfound"]_vars

\* The step called flush_memtable: it added an SSTable or it failed (insert
\* and flush_memtable fail in no other way).
Flushed ==
    /\ op'.name \in { "insert", "flush" }
    /\ Len(sstables') = Len(sstables) + 1 \/ op'.res # "ok"

\* C6: delete(k) of a key of the memtable removes that entry alone and
\* touches no SSTable; a tombstone is only ever added by a delete that did
\* not find its key in the memtable; the SSTable of a flush holds neither an
\* index entry nor a tombstone for a key deleted and not inserted again.
C6_DeleteBeforeFlush ==
    [][/\ \A k \in Keys :
            (Called("delete", k) /\ k \in DOMAIN memtable) =>
                /\ DOMAIN memtable' = DOMAIN memtable \ { k }
                /\ \A j \in DOMAIN memtable' : memtable'[j] = memtable[j]
                /\ sstables' = sstables
       /\ \A i \in 1 .. Len(sstables) :
            sstables'[i].tombstones # sstables[i].tombstones =>
                /\ op'.name = "delete"
                /\ op'.key \notin DOMAIN memtable
                /\ sstables'[i].tombstones = sstables[i].tombstones \cup { op'.key }
       /\ Len(sstables') = Len(sstables) + 1 =>
            \A k \in Keys :
                hist'[k].kind = "del" =>
                    /\ k \notin DOMAIN sstables'[Len(sstables')].index
                    /\ k \notin sstables'[Len(sstables')].tombstones]_vars

\* C6 witness: k was inserted and deleted in the memtable, and a flush of
\* the rest has since made an SSTable; no SSTable knows k.
C6_Witness ==
    \E k \in Keys :
        /\ op = Call("flush", 0, "ok")
        /\ hist[k].kind = "del"
        /\ ~Indexed(k)
        /\ DOMAIN sstables[Len(sstables)].index # { }
        /\ \A i \in 1 .. Len(sstables) : sstables[i].tombstones = { }

\* C7: insert calls flush_memtable exactly when the memtable holds at least
\* sstable_size keys after the write, and at most once; while no flush has
\* failed the memtable holds fewer than sstable_size entries after every call.
C7_FlushTrigger ==
    /\ []((faults = 0 /\ Running) => Cardinality(DOMAIN memtable) < sstable_size)
    /\ [][\A k \in Keys :
            Called("insert", k) =>
                /\ Flushed <=> Cardinality(DOMAIN memtable \cup { k }) >= sstable_size
                /\ Len(sstables') <= Len(sstables) + 1]_vars

\* C7 witness: an insert has brought the memtable to sstable_size keys and
\* flushed them into a second SSTable, no flush having failed.
C7_Witness ==
    /\ op.name = "insert"
    /\ op.res = "ok"
    /\ faults = 0
    /\ memtable = << >>
    /\ Len(sstables) = 2
    /\ Cardinality(DOMAIN sstables[2].index) = sstable_size
    /\ op.key \in DOMAIN sstables[2].index

\* C8: a flush that fails leaves every entry of the memtable (that of the
\* insert that called it too) and the list of SSTables as they were; the
\* memtable is emptied only by a step that appends the new SSTable.
C8_FlushAllOrNothing ==
    [][/\ (op'.name = "flush" /\ op'.res # "ok") =>
            memtable' = memtable /\ sstables' = sstables
       /\ \A k \in Keys :
            (Called("insert", k) /\ op'.res # "ok") =>
                /\ \E v \in Vectors : memtable' = put(memtable, k, v)
                /\ sstables' = sstables
       /\ (op'.name \in { "insert", "flush" } /\ memtable # << >> /\ memtable' = << >>) =>
            /\ Len(sstables') = Len(sstables) + 1
            /\ SubSeq(sstables', 1, Len(sstables)) = sstables
            /\ DOMAIN memtable \subseteq DOMAIN sstables'[Len(sstables')].index]_vars

\* C8 witness: an insert has returned the error of a failed flush and the
\* memtable still holds its sstable_size entries.
C8_Witness ==
    /\ op.name = "insert"
    /\ op.res = "err"
    /\ op.key \in DOMAIN memtable
    /\ Cardinality(DOMAIN memtable) >= sstable_size

\* C9: every failure during insert and its flush reaches the caller of
\* insert as an error result; none ends the call in another way.
C9_FailuresReturned ==
    op.name = "insert" => op.res \in { "ok", "err" }

\* C10: get never raises, not even on an SSTable whose record at the
\* indexed offset is corrupt: it returns a value or absent.
C10_GetNeverRaises ==
    /\ \A k \in Keys : get(k).tag \in { "Some", "None" }
    /\ op.name # "get"

\* What a reader returns for the entry (k, v): Ok((k, v)).
Decoded(r, k, v) == r.tag = "Ok" /\ FromLE(r.key) = k /\ r.value = v

\* The step appended an SSTable.
Appended == Len(sstables') = Len(sstables) + 1

\* The value key k had in the memtable that the step flushed: that of the
\* insert itself for its own key, else the memtable's.
FlushedValue(k) ==
    IF op'.name = "insert" /\ op'.key = k THEN hist'[k].value ELSE memtable[k]

\* The keys of the memtable that the step flushed.
FlushedKeys ==
    IF op'.name = "insert" THEN DOMAIN memtable \cup { op'.key } ELSE DOMAIN memtable

\* C11: whenever write_buffer writes the memtable, decoding the record at
\* the offset recorded for a key, with read_value_from_buffer or with
\* read_value_from_sstable, yields that key and a value equal to the
\* entry's; so does reading the SSTable a flush has just made of it.
C11_RecordRoundTrip ==
    /\ [](LET w == write_buffer(memtable, "none")
          IN  w.status = "ok" =>
                  \A k \in DOMAIN memtable :
                      /\ Decoded(read_value_from_buffer(w.buf, w.index[k]), k, memtable[k])
                      /\ Decoded(read_value_from_sstable(w.buf, w.index[k]), k, memtable[k]))
    /\ [][Appended =>
            LET new == sstables'[Len(sstables')]
            IN  \A k \in FlushedKeys :
                    Decoded(read_value_from_sstable(new.mmap, new.index[k]),
                            k, FlushedValue(k))]_vars

\* C11 witness: a flush has written two entries with bodies of different
\* lengths, and the record of the second one decodes to its entry.
C11_Witness ==
    /\ op.name = "insert"
    /\ op.res = "ok"
    /\ Len(sstables) >= 1
    /\ LET new == sstables[Len(sstables)]
       IN  /\ DOMAIN new.index = { 0, 1 }
           /\ new.index[1] > 0
           /\ read_value_from_sstable(new.mmap, 0).value
                  # read_value_from_sstable(new.mmap, new.index[1]).value
           /\ Decoded(read_value_from_sstable(new.mmap, new.index[1]), 1, hist[1].value)

\* The memtable that the step flushed: for an insert, the memtable with the
\* entry of the insert put into it.
FlushedMemtable ==
    IF op'.name = "insert"
    THEN put(memtable, op'.key, hist'[op'.key].value)
    ELSE memtable

\* C12: a successful flush changes the result of get for no key: what get
\* returns right after it is what get returned right before it, also when
\* the memtable flushed is empty.
C12_FlushInvisible ==
    [][Appended =>
          \A k \in Keys :
              get_in(memtable', sstables', k) = get_in(FlushedMemtable, sstables, k)]_vars

\* C12 witness: an empty memtable has been flushed into a second SSTable
\* behind one that holds a live key and a tombstoned one.
C12_Witness ==
    /\ op = Call("flush", 0, "ok")
    /\ Len(sstables) = 2
    /\ DOMAIN sstables[2].index = { }
    /\ \E k \in Keys : k \in sstables[1].tombstones /\ get(k) = None
    /\ \E k \in Keys : k \in DOMAIN sstables[1].index /\ get(k).tag = "Some"

\* C13: a successful flush appends exactly one SSTable at the end of the
\* list; its index holds exactly the keys of the memtable flushed, its
\* tombstone set is empty and the memtable is empty afterwards. Inserting
\* the keys 0 .. sstable_size - 1 into a fresh engine leaves one SSTable that
\* indexes exactly these keys, and an empty memtable.
C13_FlushPostcondition ==
    [][/\ (op'.name = "flush" /\ op'.res = "ok") => Appended
       /\ Appended =>
            /\ SubSeq(sstables', 1, Len(sstables)) = sstables
            /\ DOMAIN sstables'[Len(sstables')].index = FlushedKeys
            /\ sstables'[Len(sstables')].tombstones = { }
            /\ memtable' = << >>
       /\ ( /\ Called("insert", sstable_size - 1)
            /\ op'.res = "ok"
            /\ sstables = << >>
            /\ DOMAIN memtable = 0 .. sstable_size - 2 ) =>
            /\ Len(sstables') = 1
            /\ DOMAIN sstables'[1].index = 0 .. sstable_size - 1
            /\ memtable' = << >>]_vars

\* C13 witness: the inserts of the keys 0 .. sstable_size - 1, the last one
\* of the highest key, have left one SSTable with these keys.
C13_Witness ==
    /\ op = Call("insert", sstable_size - 1, "ok")
    /\ faults = 0
    /\ memtable = << >>
    /\ Len(sstables) = 1
    /\ DOMAIN sstables[1].index = 0 .. sstable_size - 1
    /\ sstables[1].tombstones = { }

\* C14: delete(k) of a key that is not in the memtable and is indexed by
\* some SSTable succeeds and adds k to the tombstones of one SSTable, the
\* newest one that indexes k; the memtable, the list, every index and every
\* other tombstone set stay as they were.
C14_TombstonePlacement ==
    [][\A k \in Keys :
          (Called("delete", k) /\ k \notin DOMAIN memtable /\ Indexed(k)) =>
              /\ op'.res = "ok"
              /\ memtable' = memtable
              /\ Len(sstables') = Len(sstables)
              /\ \A i \in 1 .. Len(sstables) :
                     /\ sstables'[i].index = sstables[i].index
                     /\ sstables'[i].mmap = sstables[i].mmap
                     /\ sstables'[i].tombstones =
                            IF /\ k \in DOMAIN sstables[i].index
                               /\ \A j \in i + 1 .. Len(sstables) :
                                      k \notin DOMAIN sstables[j].index
                            THEN sstables[i].tombstones \cup { k }
                            ELSE sstables[i].tombstones]_vars

\* C14 witness: delete(k) has tombstoned k in the older of two SSTables, the
\* only one that indexes it, next to a key it left alone; the newer SSTable
\* has no tombstone.
C14_Witness ==
    \E k \in Keys :
        /\ op = Call("delete", k, "ok")
        /\ Len(sstables) = 2
        /\ sstables[1].tombstones = { k }
        /\ DOMAIN sstables[1].index # { k }
        /\ k \notin DOMAIN sstables[2].index
        /\ DOMAIN sstables[2].index # { }
        /\ sstables[2].tombstones = { }

\* The step was a flush that succeeded: a direct one, or that of an insert
\* that filled the memtable.
FlushSucceeded ==
    /\ op'.res = "ok"
    /\ \/ op'.name = "flush"
       \/ /\ op'.name = "insert"
          /\ Cardinality(DOMAIN memtable \cup { op'.key }) >= sstable_size

\* C15: an SSTable once appended keeps its position, its index and its
\* bytes, in the mapping and in its file sstable_<i-1>.sdb; its tombstone
\* set only grows; none is removed, and the list grows by one with each
\* successful flush and with nothing else.
C15_SegmentsImmutable ==
    /\ [](\A i \in 1 .. Len(sstables) : dir[i - 1] = sstables[i].mmap)
    /\ [][/\ Len(sstables') = Len(sstables) + (IF FlushSucceeded THEN 1 ELSE 0)
          /\ \A i \in 1 .. Len(sstables) :
                 /\ sstables'[i].index = sstables[i].index
                 /\ sstables'[i].mmap = sstables[i].mmap
                 /\ dir'[i - 1] = dir[i - 1]
                 /\ sstables[i].tombstones \subseteq sstables'[i].tombstones]_vars

\* C15 witness: after a second flush the first SSTable, which has taken a
\* tombstone meanwhile, is still first, and calls go on.
C15_Witness ==
    /\ Len(sstables) = MaxSSTables
    /\ sstables[1].tombstones # { }
    /\ DOMAIN sstables[1].index # DOMAIN sstables[2].index
    /\ op.name = "insert"
    /\ memtable # << >>

RECURSIVE WholeRecords(_, _)
\* buf from pos on is a sequence of whole records and nothing else.
WholeRecords(buf, pos) ==
    IF pos = Len(buf) THEN TRUE
    ELSE IF read_value_from_buffer(buf, pos).tag # "Ok" THEN FALSE
    ELSE WholeRecords(buf, pos + 12 + FromLE(SubSeq(buf, pos + 9, pos + 12)))

\* C16: when a flush dies of a value that does not serialize (a panic with
\* no injected fault), what the writer was handed, and the file it wrote
\* into where that was empty before, holds whole records only: no byte of
\* the failing entry's record.
C16_NoTruncatedRecord ==
    [][(op'.res = "panic" /\ op'.name \in { "insert", "flush" } /\ faults' = faults)
           => /\ dir[Len(sstables)] = << >> => WholeRecords(dir'[Len(sstables)], 0)
              /\ op'.name = "flush" => WholeRecords(write_buffer(memtable, "none").buf, 0)]_vars

\* C17: after a successful flush the file of the new SSTable is exactly the
\* records of the flushed entries in ascending key order, whatever a file
\* of that number held before.
C17_FileIsExactlyRecords ==
    [][Appended =>
           /\ dir'[Len(sstables)] = write_buffer(FlushedMemtable, "none").buf
           /\ sstables'[Len(sstables')].mmap = write_buffer(FlushedMemtable, "none").buf]_vars

\* C18: in every SSTable the tombstones are keys of that SSTable's own
\* index.
C18_TombstonesIndexed ==
    \A i \in 1 .. Len(sstables) : sstables[i].tombstones \subseteq DOMAIN sstables[i].index

\* C18 witness: a delete has tombstoned a key in the newer of two SSTables
\* that both hold it, where the older holds another key as well and has no
\* tombstone.
C18_Witness ==
    /\ Len(sstables) = 2
    /\ op.name = "delete" /\ op.res = "ok"
    /\ sstables[2].tombstones = { op.key }
    /\ sstables[1].tombstones = { }
    /\ op.key \in DOMAIN sstables[1].index
    /\ DOMAIN sstables[1].index # { op.key }

\* The size of the record that starts at index[k]: key, length field, value.
RecordSize(sst, k) ==
    12 + FromLE(SubSeq(sst.mmap, sst.index[k] + 9, sst.index[k] + 12))

RECURSIVE SizeBelow(_, _)
\* The sizes of the records of the keys in S, added up.
SizeBelow(sst, S) ==
    IF S = { } THEN 0
    ELSE LET k == CHOOSE j \in S : TRUE
         IN  RecordSize(sst, k) + SizeBelow(sst, S \ { k })

\* C19: in every SSTable the offset of a key is the sum of the sizes of the
\* records of the smaller keys: 0 for the smallest, strictly increasing
\* with the key; and the record at that offset carries that key and a
\* value of the length its length field says.
C19_OffsetsAreRecordStarts ==
    \A i \in 1 .. Len(sstables) :
        LET sst == sstables[i]
        IN  \A k \in DOMAIN sst.index :
                /\ sst.index[k] = SizeBelow(sst, { j \in DOMAIN sst.index : j < k })
                /\ FromLE(SubSeq(sst.mmap, sst.index[k] + 1, sst.index[k] + 8)) = k
                /\ LET r == read_value_from_sstable(sst.mmap, sst.index[k])
                   IN  /\ r.tag = "Ok"
                       /\ RecordSize(sst, k) = 12 + Len(to_vec(r.value).bytes)
                /\ \A j \in DOMAIN sst.index : j < k => sst.index[j] < sst.index[k]

\* C19 witness: two SSTables of two records each, whose second records
\* start at different offsets because the first records differ in length.
C19_Witness ==
    /\ Len(sstables) = 2
    /\ DOMAIN sstables[1].index = { 0, 1 }
    /\ DOMAIN sstables[2].index = { 0, 1 }
    /\ sstables[1].index[0] = 0
    /\ sstables[1].index[1] # sstables[2].index[1]
    /\ sstables[2].index[1] > 0
    /\ get(1).tag = "Some"

====
